---- MODULE Spec2Model ----
(***************************************************************************)
(* Model of the presentation video generator (src/main.py): the command    *)
(* line entry point main(), the PresentationVideoGenerator pipeline driver *)
(* generate_presentation_video and the components it calls, together with  *)
(* the files they leave in output/<project_name>/.                         *)
(*                                                                         *)
(* Text is a sequence of one-character strings; Python's None is the       *)
(* one-element sequence None, which is no text over Chars.  A file         *)
(* collection is a function from the slide index in the file name          *)
(* (slide_NNN_...) to the file's content; its DOMAIN is the set of file    *)
(* names that exist.  Every file content carries the number of the program *)
(* run that wrote it.                                                      *)
(***************************************************************************)
EXTENDS Integers, Sequences, FiniteSets, TLC

\* ------------------------------------------------------------------ bounds
MaxRuns == 2        \* program invocations on the same project name
MaxPages == 2       \* pages of the companion PDF
MaxSlides == 2      \* slides of the PPTX deck
MaxNoteLen == 3     \* characters of a note handed to get_script_for_slide
MaxDim == 8         \* pixel width / height handed to the clip builder
MaxClips == 3       \* clip paths handed directly to combine_videos

\* --------------------------------------------------------------- constants
SilentDuration == 3    \* duration=3.0, seconds

None == <<"<None>">>
NoFile == [run |-> 0]

Chars == {" ", "\n", "a", "b"}
IsSpace(c) == c \in {" ", "\n"}

RECURSIVE SeqsUpTo(_, _)
SeqsUpTo(S, n) ==
    IF n = 0 THEN {<<>>}
    ELSE LET shorter == SeqsUpTo(S, n - 1)
         IN shorter \cup {Append(s, x) : s \in {t \in shorter : Len(t) = n - 1}, x \in S}

\* ------------------------------------------------------- pure components
RECURSIVE LStrip(_)
LStrip(s) == IF s = <<>> THEN s
             ELSE IF IsSpace(Head(s)) THEN LStrip(Tail(s)) ELSE s

RECURSIVE RStrip(_)
RStrip(s) == IF s = <<>> THEN s
             ELSE IF IsSpace(s[Len(s)]) THEN RStrip(SubSeq(s, 1, Len(s) - 1)) ELSE s

\* str.strip()
Strip(s) == RStrip(LStrip(s))

\* Python truthiness of an Optional[str]
Truthy(s) == s # None /\ s # <<>>

\* variant: the note is returned as it came, untrimmed
get_script_for_slide_nostrip(speaker_note) ==
    IF speaker_note # None /\ Truthy(Strip(speaker_note)) THEN speaker_note ELSE None

get_script_for_slide(speaker_note) ==
    IF speaker_note # None /\ Truthy(Strip(speaker_note)) THEN Strip(speaker_note) ELSE None

\* one slide of extract_speaker_notes_from_pptx: raw is None when the slide has
\* no notes slide, no text frame or empty text
ExtractNote(raw) ==
    IF raw # None /\ raw # <<>>
    THEN (IF Strip(raw) = <<>> THEN None ELSE Strip(raw))
    ELSE None

extract_speaker_notes_from_pptx(rawNotes) ==
    [k \in 1..Len(rawNotes) |-> ExtractNote(rawNotes[k])]

\* variant: only the height is made even
NormalizeSizeHeightOnly(size) ==
    <<size[1], IF size[2] % 2 # 0 THEN size[2] - 1 ELSE size[2]>>

\* the (width, height) the clip builder resizes the image to
NormalizeSize(size) ==
    <<IF size[1] % 2 # 0 THEN size[1] - 1 ELSE size[1],
      IF size[2] % 2 # 0 THEN size[2] - 1 ELSE size[2]>>

\* variant: the index is clamped to the last note, min(k, len(notes))
NoteForSlideClamped(notes, k) ==
    IF Len(notes) = 0 THEN None
    ELSE notes[IF k <= Len(notes) THEN k ELSE Len(notes)]

\* speaker_notes[i-1] if i <= len(speaker_notes) else None
NoteForSlide(notes, k) == IF k <= Len(notes) THEN notes[k] ELSE None

ManifestLine(video_path) == <<"file", video_path>>

\* variant: the lines are written last clip first
ManifestLinesReversed(paths) ==
    [k \in 1..Len(paths) |-> ManifestLine(paths[Len(paths) + 1 - k])]

\* the lines combine_videos writes to input_list.txt
ManifestLines(paths) == [k \in 1..Len(paths) |-> ManifestLine(paths[k])]

\* variant: -t is always the duration parameter
ClipContentFixedDuration(hasAudio, audioDur, duration, r) ==
    [audio |-> hasAudio, dur |-> duration, run |-> r]

\* the clip ffmpeg encodes: -t is the probed duration of the audio when there
\* is an audio path, the duration parameter otherwise
ClipContent(hasAudio, audioDur, duration, r) ==
    [audio |-> hasAudio, dur |-> IF hasAudio THEN audioDur ELSE duration, run |-> r]

\* variant: the cleanup is missing
UnlinkNothing(files, f) == files

\* os.unlink on a set of transient files
Unlink(files, f) == files \ {f}

\* variant: the key is not checked
CredentialOkNoCheck(e) == TRUE

\* os.getenv("GOOGLE_API_KEY") is set and non-empty
CredentialOk(e) == e.google

\* variant: the lookup does not test for the file
PdfFoundNoCheck(exists) == TRUE

\* pdf_path.exists() in get_corresponding_pdf
PdfFound(exists) == exists

\* ------------------------------------------------------------------ inputs
\* notes_text_frame.text of a slide, None when the slide has no notes
RawNoteValues == {None, <<" ">>, <<"a", " ">>, <<"b">>}
RawNotesLists == SeqsUpTo(RawNoteValues, MaxSlides)

\* image.size of a rendered page
ImageSizes == {<<3, 2>>, <<4, 5>>}
ImageLists == SeqsUpTo(ImageSizes, MaxPages) \ {<<>>}

\* seconds of audio the speech service returns for a script
AudioDurations == {3, 5}

ArgCases == [given : BOOLEAN, exists : BOOLEAN, pptx : BOOLEAN]
EnvCases == [google : BOOLEAN, script : BOOLEAN]

\* ------------------------------------------------------------------- state
VARIABLES
    pc,             \* position of the process
    run,            \* number of the current invocation
    args,           \* sys.argv[1]: given, names an existing file, ends in .pptx
    env,            \* API keys present in the environment
    exitCode,       \* exit code of the process, -1 while it has not exited
    constructed,    \* PresentationVideoGenerator.__init__ ran in this invocation
    dirs,           \* output/<project>/{txt,wav,mp4} exist
    speaker_notes,  \* generate_presentation_video: speaker_notes
    pdfExists,      \* whether slides/pdf/<base>.pdf was there when looked up
    images,         \* generate_presentation_video: images (their sizes)
    i,              \* loop index of enumerate(images, 1)
    speaker_note,   \* loop local / argument of get_script_for_slide
    script,         \* loop local / result of get_script_for_slide
    video_paths,    \* list of produced clip paths (slide index in the name)
    txtFiles,       \* output/<project>/txt/slide_NNN_script.txt
    wavFiles,       \* output/<project>/wav/slide_NNN_audio.wav
    mp4Files,       \* output/<project>/mp4/slide_NNN_video.mp4
    finalVideo,     \* output/<project>/<project>.mp4
    manifest,       \* output/<project>/input_list.txt
    tempFiles,      \* resized image copies made by tempfile.NamedTemporaryFile
    calls           \* log of the component calls of this invocation

vars == <<pc, run, args, env, exitCode, constructed, dirs, speaker_notes, pdfExists,
          images, i, speaker_note, script, video_paths, txtFiles, wavFiles, mp4Files,
          finalVideo, manifest, tempFiles, calls>>

files == <<txtFiles, wavFiles, mp4Files, finalVideo, manifest, tempFiles>>
locals == <<speaker_notes, pdfExists, images, i, speaker_note, script, video_paths>>

EmptyDir == [k \in {} |-> NoFile]

\* write (or overwrite) the file named by slide index k
WriteFile(dir, k, content) == (k :> content) @@ dir

Call(stage, slide, ok) ==
    calls' = Append(calls, [stage |-> stage, slide |-> slide, ok |-> ok])

FreshLocals ==
    /\ speaker_notes = <<>>
    /\ pdfExists = "unknown"
    /\ images = <<>>
    /\ i = 0
    /\ speaker_note = None
    /\ script = None
    /\ video_paths = <<>>

Init ==
    /\ pc = "start"
    /\ run = 0
    /\ args = [given |-> FALSE, exists |-> FALSE, pptx |-> FALSE]
    /\ env = [google |-> FALSE, script |-> FALSE]
    /\ exitCode = -1
    /\ constructed = FALSE
    /\ dirs = FALSE
    /\ FreshLocals
    /\ txtFiles = EmptyDir
    /\ wavFiles = EmptyDir
    /\ mp4Files = EmptyDir
    /\ finalVideo = NoFile
    /\ manifest = NoFile
    /\ tempFiles = {}
    /\ calls = <<>>

\* ------------------------------------------------------------------ main()
\* the checks of main() up to the construction of the generator
Validate(a, e) ==
    /\ run' = run + 1
    /\ args' = a
    /\ env' = e
    /\ IF a.given /\ a.exists /\ a.pptx /\ CredentialOk(e)
       THEN pc' = "construct" /\ exitCode' = -1
       ELSE pc' = "exited" /\ exitCode' = 1
    /\ constructed' = FALSE
    /\ speaker_notes' = <<>>
    /\ pdfExists' = "unknown"
    /\ images' = <<>>
    /\ i' = 0
    /\ speaker_note' = None
    /\ script' = None
    /\ video_paths' = <<>>
    /\ calls' = <<>>
    /\ UNCHANGED <<dirs, files>>

\* python main.py <argv>, in an environment
Main ==
    /\ pc = "start"
    /\ \E a \in ArgCases, e \in EnvCases : Validate(a, e)

\* the program is run again with the output tree the earlier run left
Rerun ==
    /\ pc = "exited"
    /\ run < MaxRuns
    /\ \E a \in ArgCases, e \in EnvCases : Validate(a, e)

\* PresentationVideoGenerator.__init__
Construct ==
    /\ pc = "construct"
    /\ constructed' = TRUE
    /\ dirs' = TRUE
    /\ pc' = "extract_notes"
    /\ UNCHANGED <<run, args, env, exitCode, locals, files, calls>>

\* main(): generate_presentation_video returned
MainReturn ==
    /\ pc = "done"
    /\ exitCode' = 0
    /\ pc' = "exited"
    /\ UNCHANGED <<run, args, env, constructed, dirs, locals, files, calls>>

\* variant: the handler prints the error and returns
MainExceptExitZero ==
    /\ pc = "failed"
    /\ exitCode' = 0
    /\ pc' = "exited"
    /\ UNCHANGED <<run, args, env, constructed, dirs, locals, files, calls>>

\* main(): except Exception: sys.exit(1)
MainExcept ==
    /\ pc = "failed"
    /\ exitCode' = 1
    /\ pc' = "exited"
    /\ UNCHANGED <<run, args, env, constructed, dirs, locals, files, calls>>

\* ------------------------------------------- generate_presentation_video
pipeline == <<run, args, env, exitCode, constructed, dirs>>

\* 1. extract_speaker_notes_from_pptx(file_path)
ExtractNotes ==
    /\ pc = "extract_notes"
    /\ \/ \E raw \in RawNotesLists :
            /\ speaker_notes' = extract_speaker_notes_from_pptx(raw)
            /\ Call("notes", 0, TRUE)
            /\ pc' = "get_pdf"
       \/ /\ Call("notes", 0, FALSE)
          /\ pc' = "failed"
          /\ UNCHANGED speaker_notes
    /\ UNCHANGED <<pipeline, files, pdfExists, images, i, speaker_note, script, video_paths>>

\* 2. get_corresponding_pdf(file_path)
GetCorrespondingPdf ==
    /\ pc = "get_pdf"
    /\ \E exists \in BOOLEAN :
        /\ pdfExists' = IF exists THEN "yes" ELSE "no"
        /\ Call("pdf", 0, PdfFound(exists))
        /\ pc' = IF PdfFound(exists) THEN "extract_images" ELSE "failed"
    /\ UNCHANGED <<pipeline, files, speaker_notes, images, i, speaker_note, script, video_paths>>

\* 3. extract_images_from_pdf(corresponding_pdf_path); video_paths = []
ExtractImages ==
    /\ pc = "extract_images"
    /\ \/ \E imgs \in ImageLists :
            /\ images' = imgs
            /\ Call("render", 0, TRUE)
            /\ i' = 1
            /\ pc' = "loop"
       \/ /\ Call("render", 0, FALSE)
          /\ pc' = "failed"
          /\ UNCHANGED <<images, i>>
    /\ video_paths' = <<>>
    /\ UNCHANGED <<pipeline, files, speaker_notes, pdfExists, speaker_note, script>>

\* 4./5. head of the loop over enumerate(images, 1): the slide's note and script
LoopHead ==
    /\ pc = "loop"
    /\ IF i <= Len(images)
       THEN /\ speaker_note' = NoteForSlide(speaker_notes, i)
            /\ script' = get_script_for_slide(speaker_note')
            /\ pc' = IF Truthy(script') THEN "write_script" ELSE "prepare"
       ELSE /\ pc' = "combine"
            /\ UNCHANGED <<speaker_note, script>>
    /\ UNCHANGED <<pipeline, files, speaker_notes, pdfExists, images, i, video_paths, calls>>

\* the script is saved to txt/slide_NNN_script.txt
WriteScript ==
    /\ pc = "write_script"
    /\ txtFiles' = WriteFile(txtFiles, i, [text |-> script, run |-> run])
    /\ pc' = "tts"
    /\ UNCHANGED <<pipeline, locals, wavFiles, mp4Files, finalVideo, manifest, tempFiles, calls>>

\* variant: a failed synthesis is swallowed and the slide built silent
TtsFailureFallsBackToSilence ==
    /\ pc' = "prepare"
    /\ script' = None

\* text_to_speech: except Exception: raise
TtsFailure ==
    /\ pc' = "failed"
    /\ UNCHANGED script

\* 6. text_to_speech(script, audio_path)
TextToSpeech ==
    /\ pc = "tts"
    /\ \/ \E d \in AudioDurations :
            /\ wavFiles' = WriteFile(wavFiles, i, [text |-> script, dur |-> d, run |-> run])
            /\ Call("tts", i, TRUE)
            /\ pc' = "prepare"
            /\ UNCHANGED script
       \/ /\ Call("tts", i, FALSE)
          /\ TtsFailure
          /\ UNCHANGED wavFiles
    /\ UNCHANGED <<pipeline, speaker_notes, pdfExists, images, i, speaker_note, video_paths,
                   txtFiles, mp4Files, finalVideo, manifest, tempFiles>>

\* variant: the new clip path is put in front, video_paths.insert(0, ...)
AppendPathInFront(paths, video_path) == <<video_path>> \o paths

\* video_paths.append(str(video_path))
AppendPath(paths, video_path) == Append(paths, video_path)

\* the transient resized copy of the current slide's image
TempImage == [run |-> run, slide |-> i, size |-> NormalizeSize(images[i])]

\* 7. create_video_from_slide_and_audio, first half: the image is resized to
\* even dimensions and saved to a NamedTemporaryFile(delete=False)
PrepareImage ==
    /\ pc = "prepare"
    /\ tempFiles' = tempFiles \cup {TempImage}
    /\ pc' = "encode"
    /\ UNCHANGED <<pipeline, locals, txtFiles, wavFiles, mp4Files, finalVideo, manifest, calls>>

\* 7. create_video_from_slide_and_audio, second half: ffprobe (with audio),
\* ffmpeg, os.unlink(temp_image_path); then video_paths.append(video_path)
EncodeClip ==
    /\ pc = "encode"
    /\ \/ /\ Call("encode", i, TRUE)
          /\ mp4Files' = WriteFile(mp4Files, i,
                ClipContent(Truthy(script),
                            IF Truthy(script) THEN wavFiles[i].dur ELSE 0,
                            SilentDuration, run))
          /\ tempFiles' = Unlink(tempFiles, TempImage)
          /\ video_paths' = AppendPath(video_paths, i)
          /\ i' = i + 1
          /\ pc' = "loop"
       \/ /\ Call("encode", i, FALSE)
          /\ pc' = "failed"
          /\ UNCHANGED <<mp4Files, tempFiles, video_paths, i>>
    /\ UNCHANGED <<pipeline, speaker_notes, pdfExists, images, speaker_note, script,
                   txtFiles, wavFiles, finalVideo, manifest>>

\* 8. combine_videos, first half: input_list.txt is written
WriteManifest ==
    /\ pc = "combine"
    /\ manifest' = [lines |-> ManifestLines(video_paths), run |-> run]
    /\ pc' = "concat"
    /\ UNCHANGED <<pipeline, locals, txtFiles, wavFiles, mp4Files, finalVideo, tempFiles, calls>>

\* what ffmpeg -f concat -c copy writes: the listed clips in manifest order
Concatenation(lines, r) ==
    [clips |-> [k \in 1..Len(lines) |-> mp4Files[lines[k][2]]], run |-> r]

\* 8. combine_videos, second half: subprocess.run(ffmpeg_cmd, check=True),
\* os.unlink(input_list_path)
ConcatClips ==
    /\ pc = "concat"
    /\ \/ /\ Call("concat", 0, TRUE)
          /\ finalVideo' = Concatenation(manifest.lines, run)
          /\ manifest' = NoFile
          /\ pc' = "done"
       \/ /\ Call("concat", 0, FALSE)
          /\ pc' = "failed"
          /\ UNCHANGED <<finalVideo, manifest>>
    /\ UNCHANGED <<pipeline, locals, txtFiles, wavFiles, mp4Files, tempFiles>>

Next ==
    \/ Main
    \/ Construct
    \/ ExtractNotes
    \/ GetCorrespondingPdf
    \/ ExtractImages
    \/ LoopHead
    \/ WriteScript
    \/ TextToSpeech
    \/ PrepareImage
    \/ EncodeClip
    \/ WriteManifest
    \/ ConcatClips
    \/ MainReturn
    \/ MainExcept

Spec == Init /\ [][Next]_vars

NextRerun == Next \/ Rerun

\* the program run up to MaxRuns times on the same project name
SpecRerun == Init /\ [][NextRerun]_vars

\* ------------------------------------------------ components called alone
\* a generator constructed by a caller that holds a valid key
Called ==
    /\ run = 1
    /\ args = [given |-> TRUE, exists |-> TRUE, pptx |-> TRUE]
    /\ env = [google |-> TRUE, script |-> FALSE]
    /\ exitCode = -1
    /\ constructed = TRUE
    /\ dirs = TRUE
    /\ speaker_notes = <<>>
    /\ pdfExists = "unknown"
    /\ txtFiles = EmptyDir
    /\ wavFiles = EmptyDir
    /\ finalVideo = NoFile
    /\ manifest = NoFile
    /\ tempFiles = {}
    /\ calls = <<>>

\* the arguments of get_script_for_slide: None or any text up to MaxNoteLen
NoteArgs == SeqsUpTo(Chars, MaxNoteLen) \cup {None}

InitPolicy ==
    /\ pc = "get_script"
    /\ Called
    /\ speaker_note \in NoteArgs
    /\ script = None
    /\ images = <<>>
    /\ i = 0
    /\ video_paths = <<>>
    /\ mp4Files = EmptyDir

\* generator.get_script_for_slide(speaker_note)
GetScriptForSlide ==
    /\ pc = "get_script"
    /\ script' = get_script_for_slide(speaker_note)
    /\ pc' = "got_script"
    /\ UNCHANGED <<pipeline, files, speaker_notes, pdfExists, images, i, speaker_note,
                   video_paths, calls>>

SpecPolicy == InitPolicy /\ [][GetScriptForSlide]_vars

\* the sizes of the images handed to the clip builder
SizeArgs == ((1..MaxDim) \X (1..MaxDim)) \cup {<<101, 200>>, <<101, 201>>, <<100, 200>>}

InitResize ==
    /\ pc = "prepare"
    /\ Called
    /\ \E size \in SizeArgs : images = <<size>>
    /\ i = 1
    /\ speaker_note = None
    /\ script = None
    /\ video_paths = <<>>
    /\ mp4Files = EmptyDir

\* create_video_from_slide_and_audio(image, None, output_path) up to the saved copy
SpecResize == InitResize /\ [][PrepareImage]_vars

\* clip paths in any order, without repetition
ClipLists ==
    {s \in SeqsUpTo(1..MaxClips, MaxClips) :
        \A j, k \in 1..Len(s) : j # k => s[j] # s[k]}

\* a test clip, told from the others by its duration
TestClip(k) == [audio |-> FALSE, dur |-> k, run |-> 0]

\* combine_videos(video_paths, output_path) called on clips that exist
InitDirect ==
    /\ pc = "combine"
    /\ Called
    /\ video_paths \in ClipLists
    /\ mp4Files = [k \in 1..MaxClips |-> TestClip(k)]
    /\ images = <<>>
    /\ i = 0
    /\ speaker_note = None
    /\ script = None

InitCombine == Init \/ InitDirect

\* the pipeline, and combine_videos called alone on any list of clips
SpecCombine == InitCombine /\ [][Next]_vars

\* ------------------------------------------------------------------ claims
N == Len(images)

\* the slides of the deck that carry a non-blank note
NotedSlides == {k \in 1..Len(speaker_notes) : speaker_notes[k] # None}

\* the per-slide artifacts this invocation wrote
OwnScripts == {k \in DOMAIN txtFiles : txtFiles[k].run = run}
OwnAudio == {k \in DOMAIN wavFiles : wavFiles[k].run = run}
OwnClips == {k \in DOMAIN mp4Files : mp4Files[k].run = run}
OwnTemps == {t \in tempFiles : t.run = run}

AudioClips == {k \in OwnClips : mp4Files[k].audio}
SilentClips == {k \in OwnClips : ~mp4Files[k].audio}

FailedCalls == {k \in 1..Len(calls) : ~calls[k].ok}

\* this invocation wrote the final video
FinalVideoWritten == run > 0 /\ finalVideo.run = run

\* the clips of a finished run: one per page, the audio-backed ones as long as
\* their audio, the silent ones SilentDuration long
ClipsAsSpecified(K) ==
    /\ Len(video_paths) = N
    /\ OwnClips = 1..N
    /\ Cardinality(AudioClips) = K
    /\ Cardinality(SilentClips) = N - K
    /\ \A k \in AudioClips :
        /\ k \in OwnAudio
        /\ mp4Files[k].dur = wavFiles[k].dur
    /\ \A k \in SilentClips : mp4Files[k].dur = SilentDuration

\* C1 as stated: a run in which no call fails produces N clips, K of them
\* audio-backed, for K the number of slides of the deck carrying a non-blank note.
C1_ClipsPerNotedSlideOfDeck ==
    pc = "done" => ClipsAsSpecified(Cardinality(NotedSlides))

\* C1 amended: a run in which no call fails produces exactly N clips, of which K
\* are audio-backed with the duration of the slide's audio and N-K silent with
\* a duration of 3.0 s, for K the number of slides among the first N that carry
\* a non-blank note.
C1_ClipsPerNotedPage ==
    pc = "done" => ClipsAsSpecified(Cardinality({k \in NotedSlides : k <= N}))

C1_Witness ==
    /\ pc = "done"
    /\ N = 2
    /\ Cardinality(AudioClips) = 1
    /\ Cardinality(SilentClips) = 1
    /\ \E k \in AudioClips : mp4Files[k].dur # SilentDuration

\* C2: a failed component call is the last call of the run (no retry, no later
\* slide, no silent clip in place of failed speech), the run ends failed, and the
\* final video is written only after every page's clip was produced.
C2_FailureAborts ==
    /\ \A k \in FailedCalls :
        /\ k = Len(calls)
        /\ pc \in {"failed", "exited"}
        /\ pc = "exited" => exitCode = 1
        /\ finalVideo.run # run
        /\ calls[k].stage \in {"notes", "pdf", "render"} =>
            OwnScripts \cup OwnAudio \cup OwnClips = {}
        /\ calls[k].stage \in {"tts", "encode"} =>
            /\ calls[k].slide \notin OwnClips
            /\ \A j \in OwnScripts \cup OwnAudio \cup OwnClips : j <= calls[k].slide
        /\ calls[k].stage = "tts" => calls[k].slide \notin OwnAudio
    /\ \A j, k \in 1..Len(calls) :
        j # k => <<calls[j].stage, calls[j].slide>> # <<calls[k].stage, calls[k].slide>>
    /\ FinalVideoWritten =>
        /\ FailedCalls = {}
        /\ OwnClips = 1..N
        /\ Len(finalVideo.clips) = N

C2_Witness ==
    /\ pc = "exited"
    /\ \E k \in FailedCalls : calls[k].stage = "tts" /\ calls[k].slide = 1
    /\ N = 2
    /\ OwnScripts = {1}

\* C3: when the companion PDF is absent the run has failed at the lookup: no
\* script, audio or clip file of this run exists, no transient file, and no page
\* rendering, speech synthesis or media tool call was made.
C3_MissingPdfAbortsEarly ==
    pdfExists = "no" =>
        /\ pc \in {"failed", "exited"}
        /\ pc = "exited" => exitCode = 1
        /\ OwnScripts = {} /\ OwnAudio = {} /\ OwnClips = {} /\ OwnTemps = {}
        /\ manifest.run # run
        /\ finalVideo.run # run
        /\ \A k \in 1..Len(calls) : calls[k].stage \in {"notes", "pdf"}
        /\ calls[Len(calls)] = [stage |-> "pdf", slide |-> 0, ok |-> FALSE]

C3_Witness ==
    /\ pdfExists = "no"
    /\ pc = "exited"
    /\ NotedSlides # {}

\* the pipeline driver (and not a direct caller) reached combine_videos
DriverCombines == N > 0 /\ pc \in {"combine", "concat", "done"}

\* C4: the manifest has one line per clip of the input list, in the order of the
\* list, whatever that order is; the concatenated video holds the clips in that
\* order; and the list the driver passes is the slide indices 1..N ascending.
C4_ManifestKeepsOrder ==
    /\ manifest # NoFile =>
        /\ Len(manifest.lines) = Len(video_paths)
        /\ \A k \in 1..Len(video_paths) : manifest.lines[k] = <<"file", video_paths[k]>>
    /\ (pc = "done" /\ FinalVideoWritten) =>
        /\ Len(finalVideo.clips) = Len(video_paths)
        /\ \A k \in 1..Len(video_paths) : finalVideo.clips[k] = mp4Files[video_paths[k]]
    /\ DriverCombines =>
        /\ Len(video_paths) = N
        /\ \A k \in 1..N : video_paths[k] = k

\* combine_videos was handed the clips in an order that is not ascending
C4_Witness ==
    /\ pc = "concat"
    /\ N = 0
    /\ Len(video_paths) = MaxClips
    /\ video_paths[1] > video_paths[2]
    /\ manifest.lines[1] = <<"file", video_paths[1]>>

ArgsValid == args.given /\ args.exists /\ args.pptx

\* C5: the process exits with 0 or 1, and with 0 exactly when the argument is
\* valid, the credential is present, no component call failed and the final
\* video was written.
C5_ExitCodes ==
    /\ pc = "exited" =>
        /\ exitCode \in {0, 1}
        /\ exitCode = 0 <=>
            (ArgsValid /\ env.google /\ FailedCalls = {} /\ FinalVideoWritten)
    /\ pc # "exited" => exitCode = -1

C5_Witness ==
    /\ pc = "exited"
    /\ exitCode = 1
    /\ ArgsValid
    /\ FailedCalls # {}

\* the validation of main() rejected the invocation before any work
RejectedBeforeWork ==
    /\ pc = "exited"
    /\ exitCode = 1
    /\ ~constructed
    /\ calls = <<>>
    /\ OwnScripts \cup OwnAudio \cup OwnClips = {}

\* C6 as stated: with either of the two API keys missing, the program exits
\* with 1 before any work starts.
C6_EitherKeyMissingAborts ==
    (run > 0 /\ (~env.google \/ ~env.script)) => RejectedBeforeWork

\* C6 amended: one API key, GOOGLE_API_KEY (speech synthesis), must be present;
\* if it is missing the program exits with 1 before the output directories
\* are created and before any external call.  The script-generation key is not
\* consulted: a valid invocation with GOOGLE_API_KEY set goes on to construct
\* the generator whether or not the other key is set.
C6_GoogleKeyMissingAborts ==
    /\ (run > 0 /\ ~env.google) => (RejectedBeforeWork /\ (run = 1 => ~dirs))
    /\ (run > 0 /\ ArgsValid /\ env.google) => (pc = "construct" \/ constructed)

C6_Witness ==
    /\ ArgsValid
    /\ ~env.google
    /\ env.script
    /\ pc = "exited"

\* C7: after a successful run the txt, wav and mp4 collections hold exactly the
\* artifacts this run derived from its deck, and no file of an earlier run.
C7_NoStaleArtifacts ==
    (pc = "exited" /\ exitCode = 0) =>
        /\ DOMAIN mp4Files = 1..N /\ OwnClips = 1..N
        /\ DOMAIN txtFiles = {k \in NotedSlides : k <= N} /\ OwnScripts = DOMAIN txtFiles
        /\ DOMAIN wavFiles = {k \in NotedSlides : k <= N} /\ OwnAudio = DOMAIN wavFiles

Blank(note) == note = None \/ \A k \in 1..Len(note) : IsSpace(note[k])

\* r is note without its leading and trailing whitespace
TrimmedOf(note, r) ==
    \E a \in 1..Len(note) : \E b \in a..Len(note) :
        /\ \A k \in 1..(a - 1) : IsSpace(note[k])
        /\ \A k \in (b + 1)..Len(note) : IsSpace(note[k])
        /\ ~IsSpace(note[a])
        /\ ~IsSpace(note[b])
        /\ r = SubSeq(note, a, b)

\* C8: get_script_for_slide returns None for None, empty and whitespace-only
\* input and the trimmed text for any other input, and it changes nothing else:
\* no file is written and no call is made.
C8_ScriptPolicy ==
    pc = "got_script" =>
        /\ Blank(speaker_note) => script = None
        /\ ~Blank(speaker_note) => (script # None /\ TrimmedOf(speaker_note, script))
        /\ Called
        /\ mp4Files = EmptyDir

\* a note with whitespace on both sides of its text
C8_Witness ==
    /\ pc = "got_script"
    /\ speaker_note = <<" ", "a", "\n">>
    /\ script = <<"a">>

\* C9: the size the clip builder resizes an image of size (w, h) to is
\* (w - w mod 2, h - h mod 2): both even, one less where odd, the same where even.
C9_EvenDimensions ==
    pc = "encode" =>
        \A t \in OwnTemps :
            LET w == images[t.slide][1]
                h == images[t.slide][2]
            IN  /\ t.size = <<w - (w % 2), h - (h % 2)>>
                /\ t.size[1] % 2 = 0 /\ t.size[2] % 2 = 0
                /\ t.size[1] = (IF w % 2 = 1 THEN w - 1 ELSE w)
                /\ t.size[2] = (IF h % 2 = 1 THEN h - 1 ELSE h)
                /\ <<w, h>> = <<101, 200>> => t.size = <<100, 200>>
                /\ <<w, h>> = <<101, 201>> => t.size = <<100, 200>>
                /\ <<w, h>> = <<100, 200>> => t.size = <<100, 200>>

C9_Witness ==
    /\ pc = "encode"
    /\ images = <<<<101, 201>>>>
    /\ \E t \in OwnTemps : t.size = <<100, 200>>

\* C10: after a successful clip build or concatenation the stage's transient
\* file is gone, so a successful run leaves none of its own; after a failed media
\* tool call the stage's transient file is still on disk.
C10_TransientFiles ==
    /\ pc \in {"loop", "write_script", "tts", "prepare", "combine", "concat", "done"} =>
        OwnTemps = {}
    /\ (pc = "done" \/ (pc = "exited" /\ exitCode = 0)) =>
        (OwnTemps = {} /\ manifest = NoFile)
    /\ \A k \in FailedCalls :
        /\ calls[k].stage = "encode" =>
            OwnTemps = {[run |-> run, slide |-> calls[k].slide,
                         size |-> NormalizeSize(images[calls[k].slide])]}
        /\ calls[k].stage = "concat" =>
            (manifest # NoFile /\ manifest.run = run /\ OwnTemps = {})

\* a clip was built and its copy deleted, then the next clip's encoding failed
C10_Witness ==
    /\ pc = "failed"
    /\ \E k \in FailedCalls : calls[k].stage = "encode" /\ calls[k].slide = 2
    /\ OwnClips = {1}
    /\ Cardinality(OwnTemps) = 1

\* the slides of this run past the point where their script file is written
SlidesWithScript ==
    IF pc \in {"tts", "prepare", "encode"} THEN 1..i
    ELSE IF pc \in {"loop", "write_script", "combine", "concat", "done"} THEN 1..(i - 1)
    ELSE {}

\* C11: slide k of the images takes narration entry k when k <= len(narrations)
\* and no narration (a silent clip, no failure, no other slide's note) when
\* k > len(narrations); entries beyond the last image are never used.
C11_NoteByIndexOrSilent ==
    /\ pc \in {"write_script", "tts", "prepare", "encode"} =>
        /\ i <= Len(speaker_notes) =>
            (speaker_note = speaker_notes[i] /\ script = speaker_notes[i])
        /\ i > Len(speaker_notes) =>
            (speaker_note = None /\ script = None /\ pc \in {"prepare", "encode"})
    /\ \A k \in SlidesWithScript :
        /\ (k <= Len(speaker_notes) /\ speaker_notes[k] # None) =>
            (k \in OwnScripts /\ txtFiles[k].text = speaker_notes[k])
        /\ (k > Len(speaker_notes) \/ speaker_notes[k] = None) =>
            (k \notin OwnScripts /\ k \notin OwnAudio)
    /\ \A k \in OwnClips :
        mp4Files[k].audio <=> (k <= Len(speaker_notes) /\ speaker_notes[k] # None)
    /\ \A k \in OwnAudio : wavFiles[k].text = speaker_notes[k]
    /\ OwnScripts \cup OwnAudio \cup OwnClips \subseteq 1..N
    /\ pc = "done" => OwnClips = 1..N

\* more images than notes: the slide past the last note got a silent clip
C11_Witness ==
    /\ pc = "done"
    /\ N = 2
    /\ Len(speaker_notes) = 1
    /\ speaker_notes[1] # None
    /\ AudioClips = {1}
    /\ SilentClips = {2}

\* the calls made for a slide (speech synthesis, clip encoding)
SlideCalls == {k \in 1..Len(calls) : calls[k].slide > 0}

\* where the run stands: clips 1..j are written and listed, and nothing of a
\* slide after the one in progress exists or was asked for
C12_SlidesInTurn ==
    /\ Len(video_paths) <= N
    /\ \A k \in 1..Len(video_paths) : video_paths[k] = k
    /\ OwnClips = 1..Len(video_paths)
    /\ pc \in {"loop", "write_script", "tts", "prepare", "encode"} =>
        /\ Len(video_paths) = i - 1
        /\ OwnScripts \cup OwnAudio \subseteq 1..i
        /\ \A k \in SlideCalls : calls[k].slide <= i
        /\ pc \in {"loop", "write_script"} => i \notin OwnScripts
        /\ pc \in {"loop", "write_script", "tts"} => i \notin OwnAudio
        /\ pc = "loop" => \A k \in SlideCalls : calls[k].slide < i
    /\ \A k \in SlideCalls :
        /\ calls[k].slide > 1 =>
            \E j \in 1..(k - 1) :
                calls[j] = [stage |-> "encode", slide |-> calls[k].slide - 1, ok |-> TRUE]
        /\ \A j \in SlideCalls : j < k => calls[j].slide <= calls[k].slide

\* within a run the list of clip paths only grows, by one path at its end
C12_AppendOnly ==
    run' = run =>
        \/ video_paths' = video_paths
        \/ /\ Len(video_paths') = Len(video_paths) + 1
           /\ SubSeq(video_paths', 1, Len(video_paths)) = video_paths
           /\ pc = "encode" /\ pc' = "loop"

\* C12: the slide loop is strictly sequential and the list of produced clip
\* paths is append-only: at every point of a run the list is the clips of slides
\* 1..j in ascending order for the number j of completed slides, no script
\* write, synthesis or clip build of a slide has begun before the clip of the
\* slide before it was written, and a step changes the list only by appending
\* the clip it has just written.
C12_SequentialAppendOnly == []C12_SlidesInTurn /\ [][C12_AppendOnly]_vars

\* slide 2's synthesis is under way with exactly slide 1's clip listed
C12_Witness ==
    /\ pc = "tts"
    /\ i = 2
    /\ video_paths = <<1>>
    /\ OwnClips = {1}
    /\ OwnScripts = {1, 2}
====
